---- MODULE Spec2Model ----
(***************************************************************************)
(* A model of tome (src/tome/__init__.py): the dictionary algorithms       *)
(* flip_key_val, regex_search, fuzzy_search and fuzzy_matches, the         *)
(* DataDict mapping adapter, and the Tome record with copy, astype and its *)
(* serializers.                                                            *)
(*                                                                         *)
(* Python values are tagged records [t, v].  A str is the sequence of its  *)
(* characters, so that list(str), set(str) and str.format can be modelled  *)
(* by what they do.  A dict is the sequence of its <<key, value>> pairs in *)
(* iteration order, keys unique.  A call yields Ok(value) or Raise(error). *)
(***************************************************************************)
EXTENDS Integers, Sequences, FiniteSets, TLC

VARIABLES
    last,     \* the most recent call: its operation, arguments and outcome
    dd,       \* the DataDict instance: its data attribute
    ghost,    \* for each key, the value of its latest set not yet deleted
    tomes,    \* the Tome instances: reference -> instance __dict__ or Unbound
    dicts,    \* the dict objects the instances' data attributes refer to
    origin,   \* how the instance "t2" was made: none, deep, shallow, astype
    stream,   \* the stream object most recently handed to a serializer
    file      \* the file most recently opened by path by a serializer

vars == <<last, dd, ghost, tomes, dicts, origin, stream, file>>

\* ---------------------------------------------------------------- bounds

MaxLen == 3

\* ---------------------------------------------------------------- values

StrV(s) == [t |-> "str", v |-> s]
IntV(n) == [t |-> "int", v |-> n]
BoolV(b) == [t |-> "bool", v |-> b]
None == [t |-> "none", v |-> 0]
PyList(items) == [t |-> "list", v |-> items]
PySet(elems) == [t |-> "set", v |-> elems]
PyTuple(items) == [t |-> "tuple", v |-> items]
PyDict(pairs) == [t |-> "dict", v |-> pairs]

Ok(val) == [exc |-> "", val |-> val]
Raise(e) == [exc |-> e, val |-> None]
IsOk(r) == r.exc = ""

Range(s) == {s[i] : i \in DOMAIN s}

RECURSIVE Join(_, _)
Join(sep, ss) ==
    IF ss = <<>> THEN <<>>
    ELSE IF Len(ss) = 1 THEN ss[1]
    ELSE ss[1] \o sep \o Join(sep, Tail(ss))

StartsWith(s, p) == Len(p) <= Len(s) /\ SubSeq(s, 1, Len(p)) = p

Digit(n) ==
    CASE n = 0 -> "0" [] n = 1 -> "1" [] n = 2 -> "2" [] n = 3 -> "3"
      [] n = 4 -> "4" [] n = 5 -> "5" [] n = 6 -> "6" [] n = 7 -> "7"
      [] n = 8 -> "8" [] n = 9 -> "9"

RECURSIVE IntDigits(_)
IntDigits(n) == IF n < 10 THEN <<Digit(n)>> ELSE IntDigits(n \div 10) \o <<Digit(n % 10)>>

\* str(x) and '{}'.format(x), as the characters produced
ToStr(x) ==
    CASE x.t = "str" -> x.v
      [] x.t = "int" -> IntDigits(x.v)
      [] x.t = "bool" -> IF x.v THEN <<"T", "r", "u", "e">> ELSE <<"F", "a", "l", "s", "e">>
      [] x.t = "none" -> <<"N", "o", "n", "e">>

\* bool(x): the truth value an `if x` tests
Truthy(x) ==
    CASE x.t = "str" -> x.v # <<>>
      [] x.t = "int" -> x.v # 0
      [] x.t = "bool" -> x.v
      [] x.t = "none" -> FALSE
      [] OTHER -> TRUE

\* ---------------------------------------------------------------- dict

DictKeys(d) == [i \in DOMAIN d |-> d[i][1]]
DictValues(d) == [i \in DOMAIN d |-> d[i][2]]
DictHas(d, k) == \E i \in DOMAIN d : d[i][1] = k
DictGet(d, k) == d[CHOOSE i \in DOMAIN d : d[i][1] = k][2]
\* an assignment that adds the pair without looking the key up
DictSetNoLookup(d, k, v) == Append(d, <<k, v>>)
DictSet(d, k, v) ==
    IF DictHas(d, k)
    THEN [i \in DOMAIN d |-> IF d[i][1] = k THEN <<k, v>> ELSE d[i]]
    ELSE Append(d, <<k, v>>)
DictDel(d, k) == SelectSeq(d, LAMBDA p : p[1] # k)
UniqueKeys(d) == \A i, j \in DOMAIN d : d[i][1] = d[j][1] => i = j
\* dict equality: the same pairs, whatever the iteration order
DictEq(d, e) == Range(d) = Range(e)

\* ---------------------------------------------------------------- flip_key_val

IsInstance(x, container) == x.t = container

\* list(x), set(x), tuple(x) of a key x: a str is iterated character by
\* character, an int is not iterable
Construct(container, x) ==
    IF x.t = "str"
    THEN LET chars == [i \in DOMAIN x.v |-> StrV(<<x.v[i]>>)]
         IN CASE container = "list" -> Ok(PyList(chars))
              [] container = "set" -> Ok(PySet(Range(chars)))
              [] container = "tuple" -> Ok(PyTuple(chars))
    ELSE Raise("TypeError")

\* the branch of lines 39-46 that merges key k into the container c
Merge(container, c, k) ==
    CASE container = "list" -> Ok(PyList(Append(c.v, k)))
      [] container = "set" ->
            IF k.t = "str"
            THEN Ok(PySet(c.v \cup {StrV(<<k.v[i]>>) : i \in DOMAIN k.v}))
            ELSE Raise("TypeError")
      [] container = "tuple" -> Ok(PyTuple(c.v \o <<k>>))
      [] container = "dict" -> Ok(PyDict(DictSet(c.v, IntV(Len(c.v)), k)))

RECURSIVE SmartLoop(_, _, _)
SmartLoop(items, y, container) ==
    IF items = <<>> THEN Ok(PyDict(y))
    ELSE LET k == items[1][1]
             v == items[1][2]
         IN IF DictHas(y, v)
            THEN IF ~IsInstance(DictGet(y, v), container)
                 THEN LET conv == IF container # "dict"
                                  THEN Construct(container, DictGet(y, v))
                                  ELSE Ok(PyDict(<< <<IntV(0), DictGet(y, v)>> >>))
                      IN IF ~IsOk(conv) THEN conv
                         ELSE LET merged == Merge(container, conv.val, k)
                              IN IF ~IsOk(merged) THEN merged
                                 ELSE SmartLoop(Tail(items), DictSet(y, v, merged.val), container)
                 ELSE SmartLoop(Tail(items), y, container)
            ELSE SmartLoop(Tail(items), DictSet(y, v, k), container)

\* a flip that keeps the first key seen for a value
RECURSIVE FirstWinsFlip(_, _)
FirstWinsFlip(items, y) ==
    IF items = <<>> THEN y
    ELSE FirstWinsFlip(Tail(items),
                       IF DictHas(y, items[1][2]) THEN y ELSE DictSet(y, items[1][2], items[1][1]))

\* {v : k for k, v in x.iteritems()}
RECURSIVE DumpFlip(_, _)
DumpFlip(items, y) ==
    IF items = <<>> THEN y
    ELSE DumpFlip(Tail(items), DictSet(y, items[1][2], items[1][1]))

flip_key_val(x, smart, container) ==
    IF smart THEN SmartLoop(x, <<>>, container) ELSE Ok(PyDict(DumpFlip(x, <<>>)))

\* ---------------------------------------------------------------- regex_search

\* `where is 'keys'`: an identity test, true when the argument is the very
\* object of the literal (an interned string), not merely equal to it
Is(where, lit) == where.text = lit /\ where.same

\* pattern_re.match(s) for a compiled literal pattern: anchored at position 0
Match(pattern_re, s) == StartsWith(s, pattern_re.v)

regex_search(x, pattern, where) ==
    IF pattern.t \in {"str", "unicode"}
    THEN Raise("NameError")  \* re.compile: the module never imports re
    ELSE LET pattern_re == pattern
         IN IF Is(where, "keys")
            THEN Ok(PyDict(SelectSeq(x, LAMBDA p : Match(pattern_re, ToStr(p[1])))))
            ELSE IF Is(where, "values")
            THEN Ok(PyDict(SelectSeq(x, LAMBDA p : Match(pattern_re, ToStr(p[2])))))
            ELSE IF Is(where, "both")
            THEN Ok(PyDict(SelectSeq(x, LAMBDA p : Match(pattern_re, ToStr(p[1]))
                                                     \/ Match(pattern_re, ToStr(p[2])))))
            ELSE Raise("UnboundLocalError")  \* result is never assigned

\* ---------------------------------------------------------------- fuzzy matching

\* the matcher's similarity of a candidate to the query, on 0..100
Score(query, cand) ==
    LET s == ToStr(cand)
    IN IF s = query THEN 100
       ELSE IF s # <<>> /\ query # <<>> /\ s[1] = query[1] THEN 60
       ELSE 0

\* the records of recs in descending order of score, ties in their first order
RECURSIVE SortByScore(_)
SortByScore(recs) ==
    IF recs = <<>> THEN <<>>
    ELSE LET top == CHOOSE i \in DOMAIN recs :
                        /\ \A j \in DOMAIN recs : recs[j][2] <= recs[i][2]
                        /\ \A j \in 1..(i - 1) : recs[j][2] < recs[i][2]
         IN <<recs[top]>> \o SortByScore(SubSeq(recs, 1, top - 1) \o SubSeq(recs, top + 1, Len(recs)))

\* process.extractBests(query, choices, score_cutoff, limit); choices is a
\* list of candidates (records <<candidate, score>>) or a mapping (records
\* <<candidate, score, key>> for the mapping's values)
extractBests(query, choices, score_cutoff, limit) ==
    LET recs == IF choices.t = "list"
                THEN [i \in DOMAIN choices.v |->
                         <<choices.v[i], Score(query, choices.v[i])>>]
                ELSE [i \in DOMAIN choices.v |->
                         <<choices.v[i][2], Score(query, choices.v[i][2]), choices.v[i][1]>>]
        kept == SortByScore(SelectSeq(recs, LAMBDA r : r[2] >= score_cutoff))
    IN SubSeq(kept, 1, IF Len(kept) < limit THEN Len(kept) ELSE limit)

\* {k : x[k] for k, score in matches}
RECURSIVE KeyResults(_, _, _)
KeyResults(matches, x, y) ==
    IF matches = <<>> THEN y
    ELSE KeyResults(Tail(matches), x, DictSet(y, matches[1][1], DictGet(x, matches[1][1])))

\* {k : v for v, score, k in matches}
RECURSIVE ValResults(_, _)
ValResults(matches, y) ==
    IF matches = <<>> THEN y
    ELSE ValResults(Tail(matches), DictSet(y, matches[1][3], matches[1][1]))

\* results = a.copy(); results.update(b)
RECURSIVE DictUpdate(_, _)
DictUpdate(a, b) ==
    IF b = <<>> THEN a ELSE DictUpdate(DictSet(a, b[1][1], b[1][2]), Tail(b))

fuzzy_search(x, query, where, score_cutoff, limit) ==
    IF Is(where, "keys")
    THEN LET matches == extractBests(query, PyList(DictKeys(x)), score_cutoff, limit)
         IN Ok(PyDict(KeyResults(matches, x, <<>>)))
    ELSE IF Is(where, "values")
    THEN LET matches == extractBests(query, PyDict(x), score_cutoff, limit)
         IN Ok(PyDict(ValResults(matches, <<>>)))
    ELSE IF Is(where, "both")
    THEN LET key_matches == extractBests(query, PyList(DictKeys(x)), score_cutoff, limit)
             key_results == KeyResults(key_matches, x, <<>>)
             val_matches == extractBests(query, PyDict(x), score_cutoff, limit)
             val_results == ValResults(val_matches, <<>>)
         IN Ok(PyDict(DictUpdate(key_results, val_results)))
    ELSE Raise("UnboundLocalError")  \* results is never assigned

fuzzy_matches(x, query, where, score_cutoff, limit) ==
    IF Is(where, "keys")
    THEN Raise("UnboundLocalError")  \* matches is assigned, results is returned
    ELSE IF Is(where, "values")
    THEN Raise("UnboundLocalError")
    ELSE IF Is(where, "both")
    THEN LET key_matches == extractBests(query, PyList(DictKeys(x)), score_cutoff, limit)
             val_matches == extractBests(query, PyDict(x), score_cutoff, limit)
         IN Ok(PyList(key_matches \o val_matches))
    ELSE Raise("UnboundLocalError")

\* ---------------------------------------------------------------- inputs

KeyPool == {StrV(<<"a">>), StrV(<<"b", "c">>), StrV(<<"c", "a">>), IntV(7)}
ValPool == {IntV(1), StrV(<<"c">>)}

\* the dicts of at most n pairs over the given keys and values, in every
\* iteration order
Mappings(keys, vals, n) ==
    UNION {{d \in [1..m -> keys \X vals] : UniqueKeys(d)} : m \in 0..n}

Containers == {"list", "set", "tuple", "dict"}
Patterns == {StrV(<<"c">>), [t |-> "pattern", v |-> <<"c">>], [t |-> "pattern", v |-> <<"7">>]}
Wheres == {[text |-> w, same |-> b] : w \in {"keys", "values", "both"}, b \in BOOLEAN}
              \cup {[text |-> "all", same |-> FALSE]}
Queries == {<<"c">>, <<"c", "a">>}
Cutoffs == {50, 100}
Limits == {1, 10}

Unbound == [t |-> "unbound", v |-> 0]
NoCall == [op |-> "none"]
NoStream == [closed |-> FALSE, buf |-> <<>>]
TomeRefs == {"t1", "t2"}
DictIds == {"d1", "d2"}

IdleHeap ==
    /\ dd = Unbound
    /\ ghost = <<>>
    /\ tomes = [r \in TomeRefs |-> Unbound]
    /\ dicts = [d \in DictIds |-> Unbound]
    /\ origin = "none"
    /\ stream = NoStream
    /\ file = Unbound

HeapUnchanged == UNCHANGED <<dd, ghost, tomes, dicts, origin, stream, file>>

\* ---------------------------------------------------------------- the algorithms' calls

InitAlg == last = NoCall /\ IdleHeap

\* the algorithms are pure: each behaviour is one call on fresh arguments
Fresh == last = NoCall

CallFlip ==
    /\ Fresh
    /\ \E x \in Mappings(KeyPool, ValPool, MaxLen), smart \in BOOLEAN, container \in Containers :
        /\ last' = [op |-> "flip_key_val", x |-> x, smart |-> smart, container |-> container,
                    ret |-> flip_key_val(x, smart, container)]
        /\ HeapUnchanged

CallRegexSearch ==
    /\ Fresh
    /\ \E x \in Mappings(KeyPool, ValPool, MaxLen), pattern \in Patterns, where \in Wheres :
        /\ last' = [op |-> "regex_search", x |-> x, pattern |-> pattern, where |-> where,
                    ret |-> regex_search(x, pattern, where)]
        /\ HeapUnchanged

CallFuzzySearch ==
    /\ Fresh
    /\ \E x \in Mappings(KeyPool, ValPool, MaxLen), query \in Queries, where \in Wheres,
       score_cutoff \in Cutoffs, limit \in Limits :
        /\ last' = [op |-> "fuzzy_search", x |-> x, query |-> query, where |-> where,
                    score_cutoff |-> score_cutoff, limit |-> limit,
                    ret |-> fuzzy_search(x, query, where, score_cutoff, limit)]
        /\ HeapUnchanged

CallFuzzyMatches ==
    /\ Fresh
    /\ \E x \in Mappings(KeyPool, ValPool, MaxLen), query \in Queries, where \in Wheres,
       score_cutoff \in Cutoffs, limit \in Limits :
        /\ last' = [op |-> "fuzzy_matches", x |-> x, query |-> query, where |-> where,
                    score_cutoff |-> score_cutoff, limit |-> limit,
                    ret |-> fuzzy_matches(x, query, where, score_cutoff, limit)]
        /\ HeapUnchanged

NextAlg == CallFlip \/ CallRegexSearch \/ CallFuzzySearch \/ CallFuzzyMatches

SpecAlg == InitAlg /\ [][NextAlg]_vars

\* ---------------------------------------------------------------- claims on the algorithms

ValidWhere == {"keys", "values", "both"}

\* the keys of x that map to v, in iteration order
KeysOf(x, v) == DictKeys(SelectSeq(x, LAMBDA p : p[2] = v))

Injective(x) == \A i, j \in DOMAIN x : x[i][2] = x[j][2] => i = j

\* C1: a smart flip into lists maps each value v of x to its key itself when
\* one key carries v, and to the list of exactly the n keys carrying v, each
\* whole and once, in iteration order, when n >= 2 keys carry it.
C1_SmartFlipCollectsEveryKey ==
    (last.op = "flip_key_val" /\ last.smart /\ last.container = "list") =>
        /\ IsOk(last.ret)
        /\ \A v \in Range(DictValues(last.x)) :
              LET ks == KeysOf(last.x, v)
              IN /\ DictHas(last.ret.val.v, v)
                 /\ DictGet(last.ret.val.v, v) = IF Len(ks) = 1 THEN ks[1] ELSE PyList(ks)

\* C8: fuzzy_matches returns the matcher's raw records for every valid
\* where: the key records, the value records, or the key records followed by
\* the value records.
C8_FuzzyMatchesReturnsRecords ==
    (last.op = "fuzzy_matches" /\ last.where.text \in ValidWhere /\ last.where.same) =>
        LET key_matches == extractBests(last.query, PyList(DictKeys(last.x)),
                                        last.score_cutoff, last.limit)
            val_matches == extractBests(last.query, PyDict(last.x),
                                        last.score_cutoff, last.limit)
        IN /\ IsOk(last.ret)
           /\ last.ret.val = PyList(CASE last.where.text = "keys" -> key_matches
                                      [] last.where.text = "values" -> val_matches
                                      [] last.where.text = "both" -> key_matches \o val_matches)

\* C9: regex_search and fuzzy_search fail with an error on a where outside
\* keys, values, both, and on a where among them return a mapping made of
\* pairs of the original.
C9_SearchFailsOrReturnsSubset ==
    (last.op \in {"regex_search", "fuzzy_search"}) =>
        /\ last.where.text \notin ValidWhere => ~IsOk(last.ret)
        /\ (last.where.text \in ValidWhere /\ last.where.same) =>
              /\ IsOk(last.ret)
              /\ last.ret.val.t = "dict"
              /\ UniqueKeys(last.ret.val.v)
              /\ Range(last.ret.val.v) \subseteq Range(last.x)

\* C10: a flip with smart=False maps each value to the last key, in
\* iteration order, that carries it; flipping twice a mapping whose values
\* are pairwise distinct gives the mapping back.
C10_DumbFlipLastKeyAndRoundTrip ==
    (last.op = "flip_key_val" /\ ~last.smart) =>
        /\ IsOk(last.ret)
        /\ LET y == last.ret.val.v
           IN /\ UniqueKeys(y)
              /\ Range(DictKeys(y)) = Range(DictValues(last.x))
              /\ \A v \in Range(DictValues(last.x)) :
                    LET ks == KeysOf(last.x, v) IN DictGet(y, v) = ks[Len(ks)]
              /\ Injective(last.x) =>
                    LET back == flip_key_val(y, FALSE, last.container)
                    IN IsOk(back) /\ DictEq(back.val.v, last.x)

C10_Witness ==
    /\ last.op = "flip_key_val"
    /\ ~last.smart
    /\ Len(last.x) = 2
    /\ Injective(last.x)
    /\ last.ret.val.v # last.x
    /\ flip_key_val(last.ret.val.v, FALSE, last.container).val.v = last.x

\* ---------------------------------------------------------------- DataDict

Absent == [t |-> "absent", v |-> 0]

\* DataDict.__init__: the instance has no data attribute yet, so
\* self.data.update raises AttributeError and self.data = dict(mapping)
DataDictInit(mapping) == [data |-> mapping]

InitMap ==
    \E m \in Mappings(KeyPool, ValPool, MaxLen) :
        /\ dd = DataDictInit(m)
        /\ ghost = [k \in KeyPool |-> IF \E i \in DOMAIN m : m[i][1] = k
                                       THEN m[CHOOSE i \in DOMAIN m : m[i][1] = k][2]
                                       ELSE Absent]
        /\ last = NoCall
        /\ tomes = [r \in TomeRefs |-> Unbound]
        /\ dicts = [d \in DictIds |-> Unbound]
        /\ origin = "none"
        /\ stream = NoStream
        /\ file = Unbound

RestUnchanged == UNCHANGED <<tomes, dicts, origin, stream, file>>

\* a call's bookkeeping: whether the key was present, and the store before
Call(op, k, v, ret) ==
    [op |-> op, k |-> k, v |-> v, ret |-> ret, had |-> ghost[k] # Absent, pre |-> dd]

\* self.data[key] = value
SetItem ==
    \E k \in KeyPool, v \in ValPool :
        /\ dd' = [dd EXCEPT !.data = DictSet(dd.data, k, v)]
        /\ ghost' = [ghost EXCEPT ![k] = v]
        /\ last' = Call("set", k, v, Ok(None))
        /\ RestUnchanged

\* return self.data[key]
GetItem ==
    \E k \in KeyPool :
        /\ last' = Call("get", k, None,
                        IF DictHas(dd.data, k) THEN Ok(DictGet(dd.data, k)) ELSE Raise("KeyError"))
        /\ UNCHANGED <<dd, ghost>>
        /\ RestUnchanged

\* del self.data[key]
DelItem ==
    \E k \in KeyPool :
        /\ IF DictHas(dd.data, k)
           THEN /\ dd' = [dd EXCEPT !.data = DictDel(dd.data, k)]
                /\ ghost' = [ghost EXCEPT ![k] = Absent]
                /\ last' = Call("del", k, None, Ok(None))
           ELSE /\ last' = Call("del", k, None, Raise("KeyError"))
                /\ UNCHANGED <<dd, ghost>>
        /\ RestUnchanged

\* return len(self.data)
LenCall ==
    /\ last' = [op |-> "len", ret |-> Ok(IntV(Len(dd.data)))]
    /\ UNCHANGED <<dd, ghost>>
    /\ RestUnchanged

\* return iter(self.data)
IterCall ==
    /\ last' = [op |-> "iter", ret |-> Ok(PyList(DictKeys(dd.data)))]
    /\ UNCHANGED <<dd, ghost>>
    /\ RestUnchanged

NextMap == SetItem \/ GetItem \/ DelItem \/ LenCall \/ IterCall

SpecMap == InitMap /\ [][NextMap]_vars

Present == {k \in KeyPool : ghost[k] # Absent}

\* C6: under any sequence of set, get and delete from a given mapping the
\* keys stay unique, length() is the number of keys present, get(k) returns
\* the value of the latest set(k, .) not followed by delete(k), a set on a
\* present key keeps the length, and get or delete on an absent key fails
\* with KeyError and leaves the store as it was.
C6_AdapterTracksSetsAndDeletes ==
    /\ UniqueKeys(dd.data)
    /\ Len(dd.data) = Cardinality(Present)
    /\ Range(DictKeys(dd.data)) = Present
    /\ last.op = "len" => last.ret = Ok(IntV(Cardinality(Present)))
    /\ last.op = "iter" => Range(last.ret.val.v) = Present /\ Len(last.ret.val.v) = Cardinality(Present)
    /\ last.op = "get" =>
          /\ dd = last.pre
          /\ last.ret = IF last.had THEN Ok(ghost[last.k]) ELSE Raise("KeyError")
    /\ last.op = "set" =>
          /\ IsOk(last.ret)
          /\ ghost[last.k] = last.v
          /\ last.had => Len(dd.data) = Len(last.pre.data)
          /\ ~last.had => Len(dd.data) = Len(last.pre.data) + 1
    /\ last.op = "del" =>
          IF last.had
          THEN IsOk(last.ret) /\ Len(dd.data) = Len(last.pre.data) - 1 /\ last.k \notin Present
          ELSE last.ret = Raise("KeyError") /\ dd = last.pre

C6_Witness ==
    /\ last.op = "get"
    /\ last.had
    /\ Len(dd.data) >= 2
    /\ \E i \in DOMAIN dd.data : dd.data[i][1] = last.k /\ dd.data[i][2] = last.ret.val /\ i < Len(dd.data)

\* ---------------------------------------------------------------- Tome

Ref(d) == [t |-> "ref", v |-> d]

DefaultName == StrV(<<"T", "o", "m", "e">>)
DefaultDescription == StrV(<<"A", " ", "c", "o", "n", "t", "a", "i", "n", "e", "r", " ", "o", "f", " ", "i", "n", "f", "o", "r", "m", "a", "t", "i", "o", "n", ".">>)

\* header_order, line 154; its field names as characters
header_order == <<"name", "description", "date", "authority", "reference", "living", "derived", "source">>
FieldChars(a) ==
    CASE a = "name" -> <<"n", "a", "m", "e">>
      [] a = "description" -> <<"d", "e", "s", "c", "r", "i", "p", "t", "i", "o", "n">>
      [] a = "date" -> <<"d", "a", "t", "e">>
      [] a = "authority" -> <<"a", "u", "t", "h", "o", "r", "i", "t", "y">>
      [] a = "reference" -> <<"r", "e", "f", "e", "r", "e", "n", "c", "e">>
      [] a = "living" -> <<"l", "i", "v", "i", "n", "g">>
      [] a = "derived" -> <<"d", "e", "r", "i", "v", "e", "d">>
      [] a = "source" -> <<"s", "o", "u", "r", "c", "e">>

\* Tome.__init__: every argument is stored as given, data included; the
\* DataDict initializer is not called
TomeInit(data, name, description, key, value, authority, reference, living, derived, source, date) ==
    [data |-> data, name |-> name, description |-> description, date |-> date,
     key |-> key, value |-> value, authority |-> authority, reference |-> reference,
     living |-> living, derived |-> derived, source |-> source]

Bound(r) == tomes[r] # Unbound
HasMapping(r) == Bound(r) /\ tomes[r].data # None
\* the contents of the dict that r's data attribute refers to
Data(r) == dicts[tomes[r].data.v]

\* what an observer of r sees: its attributes and its mapping's contents
View(r) ==
    IF ~Bound(r) THEN [obj |-> Unbound, content |-> None]
    ELSE [obj |-> tomes[r], content |-> IF tomes[r].data = None THEN None ELSE PyDict(Data(r))]

\* t1 = Tome(data, ...): the instance refers to the caller's dict, or to None
NewTome(inputs) ==
    /\ ~Bound("t1")
    /\ \E in \in inputs :
        /\ tomes' = [tomes EXCEPT !["t1"] =
                        TomeInit(IF in.data = None THEN None ELSE Ref("d1"),
                                 in.name, DefaultDescription, in.key, in.value, in.authority,
                                 in.reference, in.living, BoolV(FALSE), in.source, None)]
        /\ dicts' = [dicts EXCEPT !["d1"] = IF in.data = None THEN Unbound ELSE in.data.v]
        /\ last' = [op |-> "new", r |-> "t1", data |-> in.data, ret |-> Ok(None)]
        /\ UNCHANGED <<dd, ghost, origin, stream, file>>

TomeKeys == {StrV(<<"a">>), IntV(7)}
TomeVals == {IntV(1), StrV(<<"x">>)}

InitTome ==
    /\ last = NoCall
    /\ dd = Unbound
    /\ ghost = <<>>
    /\ tomes = [r \in TomeRefs |-> Unbound]
    /\ dicts = [d \in DictIds |-> Unbound]
    /\ origin = "none"
    /\ stream = NoStream
    /\ file = Unbound

\* ---------------------------------------------------------------- the adapter on a Tome

\* self.data[key] = value
TomeSetItem ==
    \E r \in TomeRefs, k \in TomeKeys, v \in TomeVals :
        /\ Bound(r)
        /\ IF tomes[r].data = None
           THEN /\ last' = [op |-> "set", r |-> r, k |-> k, v |-> v, ret |-> Raise("TypeError")]
                /\ UNCHANGED dicts
           ELSE /\ dicts' = [dicts EXCEPT ![tomes[r].data.v] = DictSet(@, k, v)]
                /\ last' = [op |-> "set", r |-> r, k |-> k, v |-> v, ret |-> Ok(None)]
        /\ UNCHANGED <<dd, ghost, tomes, origin, stream, file>>

\* return self.data[key]
TomeGetItem ==
    \E r \in TomeRefs, k \in TomeKeys :
        /\ Bound(r)
        /\ last' = [op |-> "get", r |-> r, k |-> k,
                    ret |-> IF tomes[r].data = None THEN Raise("TypeError")
                            ELSE IF DictHas(Data(r), k) THEN Ok(DictGet(Data(r), k))
                            ELSE Raise("KeyError")]
        /\ UNCHANGED <<dd, ghost, tomes, dicts, origin, stream, file>>

\* del self.data[key]
TomeDelItem ==
    \E r \in TomeRefs, k \in TomeKeys :
        /\ Bound(r)
        /\ IF tomes[r].data = None
           THEN /\ last' = [op |-> "del", r |-> r, k |-> k, ret |-> Raise("TypeError")]
                /\ UNCHANGED dicts
           ELSE IF DictHas(Data(r), k)
           THEN /\ dicts' = [dicts EXCEPT ![tomes[r].data.v] = DictDel(@, k)]
                /\ last' = [op |-> "del", r |-> r, k |-> k, ret |-> Ok(None)]
           ELSE /\ last' = [op |-> "del", r |-> r, k |-> k, ret |-> Raise("KeyError")]
                /\ UNCHANGED dicts
        /\ UNCHANGED <<dd, ghost, tomes, origin, stream, file>>

\* return len(self.data)
TomeLen ==
    \E r \in TomeRefs :
        /\ Bound(r)
        /\ last' = [op |-> "len", r |-> r,
                    ret |-> IF tomes[r].data = None THEN Raise("TypeError")
                            ELSE Ok(IntV(Len(Data(r))))]
        /\ UNCHANGED <<dd, ghost, tomes, dicts, origin, stream, file>>

\* return iter(self.data)
TomeIter ==
    \E r \in TomeRefs :
        /\ Bound(r)
        /\ last' = [op |-> "iter", r |-> r,
                    ret |-> IF tomes[r].data = None THEN Raise("TypeError")
                            ELSE Ok(PyList(DictKeys(Data(r))))]
        /\ UNCHANGED <<dd, ghost, tomes, dicts, origin, stream, file>>

\* r.name = value, r.living = value: an attribute of the instance is rebound
SetAttr ==
    \E r \in TomeRefs, a \in {"name", "living"} :
        /\ Bound(r)
        /\ \E val \in IF a = "name" THEN {DefaultName, StrV(<<"T">>)} ELSE {BoolV(FALSE), BoolV(TRUE)} :
            /\ tomes' = [tomes EXCEPT ![r] =
                            IF a = "name" THEN [@ EXCEPT !.name = val] ELSE [@ EXCEPT !.living = val]]
            /\ last' = [op |-> "setattr", r |-> r, a |-> a, val |-> val, ret |-> Ok(None)]
        /\ UNCHANGED <<dd, ghost, dicts, origin, stream, file>>

\* ---------------------------------------------------------------- copy, astype

\* copy.copy(self): a new instance whose attributes are those of self, the
\* data attribute referring to the same dict
ShallowCopy(src) == [tome |-> tomes[src], d2 |-> Unbound]

\* a copy whose data attribute still refers to the source's dict
AliasingCopy(src) == [tome |-> tomes[src], d2 |-> Unbound]

\* copy.deepcopy(self): a new instance whose data refers to a dict of its own
DeepCopy(src) ==
    IF tomes[src].data = None
    THEN [tome |-> tomes[src], d2 |-> Unbound]
    ELSE [tome |-> [tomes[src] EXCEPT !.data = Ref("d2")], d2 |-> Data(src)]

\* t2 = t1.copy(deep)
Copy ==
    \E deep \in BOOLEAN :
        /\ Bound("t1")
        /\ LET c == IF deep THEN DeepCopy("t1") ELSE ShallowCopy("t1")
           IN /\ tomes' = [tomes EXCEPT !["t2"] = c.tome]
              /\ dicts' = [dicts EXCEPT !["d2"] = c.d2]
        /\ origin' = IF deep THEN "deep" ELSE "shallow"
        /\ last' = [op |-> "copy", r |-> "t1", deep |-> deep, ret |-> Ok(Ref("t2"))]
        /\ UNCHANGED <<dd, ghost, stream, file>>

IsDigits(s) == s # <<>> /\ \A i \in DOMAIN s : \E n \in 0..9 : s[i] = Digit(n)

RECURSIVE ParseDigits(_)
ParseDigits(s) ==
    IF s = <<>> THEN 0
    ELSE 10 * ParseDigits(SubSeq(s, 1, Len(s) - 1)) + (CHOOSE n \in 0..9 : s[Len(s)] = Digit(n))

\* new_type(v) for the conversions str, int and the default lambda x: x
Convert(new_type, v) ==
    CASE new_type = "str" -> Ok(StrV(ToStr(v)))
      [] new_type = "int" ->
            IF v.t = "int" THEN Ok(v)
            ELSE IF IsDigits(v.v) THEN Ok(IntV(ParseDigits(v.v)))
            ELSE Raise("ValueError")
      [] new_type = "identity" -> Ok(v)

\* {k : new_type(v) for k, v in items}: the first error ends the comprehension
RECURSIVE ConvertItems(_, _)
ConvertItems(items, new_type) ==
    IF items = <<>> THEN Ok(<<>>)
    ELSE LET c == Convert(new_type, items[1][2])
         IN IF ~IsOk(c) THEN c
            ELSE LET rest == ConvertItems(Tail(items), new_type)
                 IN IF ~IsOk(rest) THEN rest ELSE Ok(<<<<items[1][1], c.val>>>> \o rest.val)

Converters == {"str", "int", "identity"}

\* t2 = t1.astype(new_type)
AsType ==
    \E new_type \in Converters :
        /\ Bound("t1")
        /\ LET converted_self == DeepCopy("t1")
               data == IF converted_self.tome.data = None
                       THEN Raise("AttributeError")  \* None has no iteritems
                       ELSE ConvertItems(IF converted_self.tome.data = Ref("d2")
                                         THEN converted_self.d2
                                         ELSE dicts[converted_self.tome.data.v], new_type)
           IN IF IsOk(data)
              THEN /\ tomes' = [tomes EXCEPT !["t2"] = [converted_self.tome EXCEPT !.data = Ref("d2")]]
                   /\ dicts' = [dicts EXCEPT !["d2"] = data.val]
                   /\ origin' = "astype"
                   /\ last' = [op |-> "astype", r |-> "t1", new_type |-> new_type, ret |-> Ok(Ref("t2"))]
              ELSE /\ last' = [op |-> "astype", r |-> "t1", new_type |-> new_type, ret |-> data]
                   /\ UNCHANGED <<tomes, dicts, origin>>
        /\ UNCHANGED <<dd, ghost, stream, file>>

\* return [x for x in self.data.iteritems()]
to_tuples(self) ==
    IF self.data = None THEN Raise("AttributeError")
    ELSE Ok(PyList([i \in DOMAIN dicts[self.data.v] |-> PyTuple(dicts[self.data.v][i])]))

ToTuples ==
    \E r \in TomeRefs :
        /\ Bound(r)
        /\ last' = [op |-> "to_tuples", r |-> r, ret |-> to_tuples(tomes[r])]
        /\ UNCHANGED <<dd, ghost, tomes, dicts, origin, stream, file>>

\* ---------------------------------------------------------------- serializers

\* template.format(a, b) for a template '{}<sep>{}'
Format(template, a, b) == ToStr(a) \o template \o ToStr(b)

Newline == <<"\n">>

\* ', '.join([header_formater.format(a, self.__dict__[a])
\*            for a in self.header_order if self.__dict__[a]])
Attr(self, a) ==
    CASE a = "name" -> self.name
      [] a = "description" -> self.description
      [] a = "date" -> self.date
      [] a = "authority" -> self.authority
      [] a = "reference" -> self.reference
      [] a = "living" -> self.living
      [] a = "derived" -> self.derived
      [] a = "source" -> self.source

Header(self, header_formater) ==
    LET shown == SelectSeq(header_order, LAMBDA a : Truthy(Attr(self, a)))
    IN Join(<<",", " ">>, [i \in DOMAIN shown |->
                              FieldChars(shown[i]) \o header_formater \o ToStr(Attr(self, shown[i]))])

\* the `if fp:` tail shared by to_csv and to_html: a path is opened, written
\* and closed, any other sink is written to, and with no sink the text is
\* returned
WriteOrReturn(fp, text) ==
    IF Truthy(fp)
    THEN [ret |-> Ok(None), opened |-> fp.t \in {"str", "unicode"}, wrote |-> text]
    ELSE [ret |-> Ok(text), opened |-> FALSE, wrote |-> <<>>]

Failed(e, opened) == [ret |-> Raise(e), opened |-> opened, wrote |-> <<>>]

to_csv(self, fp, data_only, csv_formater, header_formater) ==
    IF self.data = None THEN Failed("AttributeError", FALSE)  \* None has no iteritems
    ELSE LET data == dicts[self.data.v]
             head == IF data_only THEN <<>> ELSE Header(self, header_formater) \o Newline
             labels == Format(csv_formater, self.key, self.value) \o Newline
             rows == Join(Newline, [i \in DOMAIN data |-> Format(csv_formater, data[i][1], data[i][2])])
         IN WriteOrReturn(fp, head \o labels \o rows)

HtmlRow(k, v) ==
    <<"\t", "\t", "<", "t", "r", ">", "<", "t", "d", ">">> \o ToStr(k) \o <<"<", "/", "t", "d", ">", "<", "t", "d", ">">> \o ToStr(v) \o <<"<", "/", "t", "d", ">", "<", "/", "t", "r", ">">>

to_html(self, fp, data_only, header_formater) ==
    IF self.data = None THEN Failed("AttributeError", FALSE)
    ELSE LET data == dicts[self.data.v]
             caption == IF data_only THEN <<>>
                        ELSE <<"\t", "<", "c", "a", "p", "t", "i", "o", "n", ">">> \o Header(self, header_formater) \o <<"<", "/", "c", "a", "p", "t", "i", "o", "n", ">", "\n">>
             thead == <<"\t", "<", "t", "h", "e", "a", "d", ">", "\n", "\t", "\t", "<", "t", "r", ">", "<", "t", "h", ">">> \o ToStr(self.key) \o <<"<", "/", "t", "h", ">", "<", "t", "h", ">">> \o ToStr(self.value) \o <<"<", "/", "t", "h", ">", "<", "/", "t", "r", ">", "\n", "\t", "<", "/", "t", "h", "e", "a", "d", ">", "\n">>
             tbody == <<"\t", "<", "t", "b", "o", "d", "y", ">", "\n">> \o Join(Newline, [i \in DOMAIN data |-> HtmlRow(data[i][1], data[i][2])])
                         \o <<"\n", "\t", "<", "/", "t", "b", "o", "d", "y", ">", "\n">>
         IN WriteOrReturn(fp, <<"<", "t", "a", "b", "l", "e", ">", "\n">> \o caption \o thead \o tbody \o <<"<", "/", "t", "a", "b", "l", "e", ">", "\n">>)

\* the object a dump serializes: the mapping's contents, or the instance's
\* __dict__ with them
DataObj(self) == IF self.data = None THEN None ELSE PyDict(dicts[self.data.v])
DictObj(self) == [self EXCEPT !.data = DataObj(self)]

\* pickle.dumps(obj) and json.dumps(obj, indent): the encoded content
PickleDumps(obj) == <<[fmt |-> "pickle", obj |-> obj]>>
JsonDumps(obj, indent) == <<[fmt |-> "json", indent |-> indent, obj |-> obj]>>

to_pickle(self, fp, data_only) ==
    IF Truthy(fp)
    THEN IF data_only
         \* pickle.dump(f, self.data): the mapping is taken for the file
         THEN Failed("AttributeError", fp.t \in {"str", "unicode"})
         \* json.dumps(self.__dict__): the content is built and dropped
         ELSE [ret |-> Ok(None), opened |-> fp.t \in {"str", "unicode"}, wrote |-> <<>>]
    ELSE [ret |-> Ok(IF data_only THEN PickleDumps(DataObj(self)) ELSE JsonDumps(DictObj(self), None)),
          opened |-> FALSE, wrote |-> <<>>]

to_json(self, fp, data_only, indent) ==
    IF Truthy(fp)
    \* json.dump(f, self.data, ...) encodes the file; json.dump(self.__dict__,
    \* indent=indent) lacks its fp argument
    THEN Failed("TypeError", fp.t \in {"str", "unicode"})
    ELSE [ret |-> Ok(JsonDumps(IF data_only THEN DataObj(self) ELSE DictObj(self), indent)),
          opened |-> FALSE, wrote |-> <<>>]

StreamSink == [t |-> "stream", v |-> 0]
PathSink == StrV(<<"o">>)
Sinks == {None, PathSink, StreamSink}
CsvFormaters == {<<",">>, <<"\t">>}
HeaderFormaters == {<<":", " ">>}
Indents == {IntV(4)}

\* the sink after a call: the stream handed over holds what was written and
\* stays open; a file opened by path holds it and is closed by the with block
SinkEffects(fp, res) ==
    /\ stream' = IF fp = StreamSink THEN [closed |-> FALSE, buf |-> res.wrote] ELSE NoStream
    /\ file' = IF res.opened THEN [path |-> fp, content |-> res.wrote, closed |-> TRUE] ELSE Unbound

ToCsv ==
    \E r \in TomeRefs, fp \in Sinks, data_only \in BOOLEAN, csv_formater \in CsvFormaters,
       header_formater \in HeaderFormaters :
        /\ Bound(r)
        /\ LET res == to_csv(tomes[r], fp, data_only, csv_formater, header_formater)
           IN /\ last' = [op |-> "to_csv", r |-> r, fp |-> fp, data_only |-> data_only,
                          csv_formater |-> csv_formater, header_formater |-> header_formater,
                          ret |-> res.ret]
              /\ SinkEffects(fp, res)
        /\ UNCHANGED <<dd, ghost, tomes, dicts, origin>>

ToHtml ==
    \E r \in TomeRefs, fp \in Sinks, data_only \in BOOLEAN, header_formater \in HeaderFormaters :
        /\ Bound(r)
        /\ LET res == to_html(tomes[r], fp, data_only, header_formater)
           IN /\ last' = [op |-> "to_html", r |-> r, fp |-> fp, data_only |-> data_only,
                          header_formater |-> header_formater, ret |-> res.ret]
              /\ SinkEffects(fp, res)
        /\ UNCHANGED <<dd, ghost, tomes, dicts, origin>>

ToPickle ==
    \E r \in TomeRefs, fp \in Sinks, data_only \in BOOLEAN :
        /\ Bound(r)
        /\ LET res == to_pickle(tomes[r], fp, data_only)
           IN /\ last' = [op |-> "to_pickle", r |-> r, fp |-> fp, data_only |-> data_only,
                          ret |-> res.ret]
              /\ SinkEffects(fp, res)
        /\ UNCHANGED <<dd, ghost, tomes, dicts, origin>>

ToJson ==
    \E r \in TomeRefs, fp \in Sinks, data_only \in BOOLEAN, indent \in Indents :
        /\ Bound(r)
        /\ LET res == to_json(tomes[r], fp, data_only, indent)
           IN /\ last' = [op |-> "to_json", r |-> r, fp |-> fp, data_only |-> data_only,
                          indent |-> indent, ret |-> res.ret]
              /\ SinkEffects(fp, res)
        /\ UNCHANGED <<dd, ghost, tomes, dicts, origin>>

\* ---------------------------------------------------------------- specifications of the record

NoMeta == StrV(<<>>)

\* Tome(data): the record's life with its mapping, its copies and conversions
LifeInputs ==
    {[data |-> d, name |-> DefaultName, key |-> NoMeta, value |-> NoMeta, authority |-> NoMeta,
      reference |-> NoMeta, living |-> BoolV(FALSE), source |-> None] :
        d \in {None} \cup {PyDict(m) : m \in Mappings(TomeKeys, TomeVals, MaxLen)}}

\* Tome(data, key=, value=, reference=, living=): the records serialized
SerInputs ==
    {[data |-> d, name |-> DefaultName, key |-> kv[1], value |-> kv[2], authority |-> NoMeta,
      reference |-> ref, living |-> BoolV(l), source |-> None] :
        d \in {None} \cup {PyDict(m) : m \in Mappings(TomeKeys, TomeVals, MaxLen)},
        kv \in {<<NoMeta, NoMeta>>, <<StrV(<<"k">>), StrV(<<"v">>)>>},
        ref \in {NoMeta, StrV(<<"u">>)},
        l \in BOOLEAN}

New == NewTome(LifeInputs)

Next ==
    \/ New
    \/ TomeSetItem
    \/ TomeGetItem
    \/ TomeDelItem
    \/ TomeLen
    \/ TomeIter
    \/ SetAttr
    \/ Copy
    \/ AsType
    \/ ToTuples

Spec == InitTome /\ [][Next]_vars

NewSer == NewTome(SerInputs)

NextSer == NewSer \/ ToCsv \/ ToHtml \/ ToPickle \/ ToJson

SpecSer == InitTome /\ [][NextSer]_vars

\* ---------------------------------------------------------------- claims on the record

\* C2: a Tome made without a mapping holds an empty mapping, so that
\* length() is 0 and iteration yields nothing right after construction, and
\* set, to_tuples and astype do not fail on the absent mapping.
C2_NoMappingMeansEmptyMapping ==
    /\ (last.op = "new" /\ last.data = None) =>
          HasMapping("t1") /\ Data("t1") = <<>>
    /\ (last.op = "len" /\ ~HasMapping(last.r)) => last.ret = Ok(IntV(0))
    /\ (last.op = "iter" /\ ~HasMapping(last.r)) => last.ret = Ok(PyList(<<>>))
    /\ (last.op \in {"set", "to_tuples", "astype"} /\ ~HasMapping(last.r)) => IsOk(last.ret)

\* str.splitlines(): the lines of a text, a final newline ending the last one
RECURSIVE SplitLines(_)
SplitLines(text) ==
    IF text = <<>> THEN <<>>
    ELSE IF \E i \in DOMAIN text : text[i] = "\n"
    THEN LET n == CHOOSE i \in DOMAIN text : text[i] = "\n" /\ \A j \in 1..(i - 1) : text[j] # "\n"
         IN <<SubSeq(text, 1, n - 1)>> \o SplitLines(SubSeq(text, n + 1, Len(text)))
    ELSE <<text>>

\* what the call before put out: the text returned, or written to its sink
Emitted ==
    IF last.fp = None THEN last.ret.val
    ELSE IF last.fp = StreamSink THEN stream.buf
    ELSE file.content

\* C3: each serializer, for each data_only, given an open stream completes
\* without error, writes to it exactly the content it returns when given no
\* sink, and leaves it open; given no sink it writes nothing and returns the
\* content.
C3_StreamGetsTheReturnedContent ==
    (last.op \in {"to_pickle", "to_json", "to_csv", "to_html"} /\ HasMapping(last.r)) =>
        LET self == tomes[last.r]
            alone == CASE last.op = "to_pickle" -> to_pickle(self, None, last.data_only)
                       [] last.op = "to_json" -> to_json(self, None, last.data_only, last.indent)
                       [] last.op = "to_csv" -> to_csv(self, None, last.data_only, last.csv_formater,
                                                       last.header_formater)
                       [] last.op = "to_html" -> to_html(self, None, last.data_only,
                                                         last.header_formater)
        IN /\ last.fp = StreamSink =>
                 /\ IsOk(last.ret)
                 /\ IsOk(alone.ret)
                 /\ stream.buf = alone.ret.val
                 /\ ~stream.closed
           /\ last.fp = None =>
                 /\ IsOk(last.ret)
                 /\ stream = NoStream
                 /\ file = Unbound

\* C4: to_csv on a record of n pairs puts out, with data_only, exactly the n
\* data lines, one per pair in iteration order, and otherwise the line of the
\* non-empty header_order fields, the line of the key and value labels, and
\* the n data lines.
C4_CsvLines ==
    (last.op = "to_csv" /\ HasMapping(last.r)) =>
        LET self == tomes[last.r]
            data == Data(last.r)
            rows == [i \in DOMAIN data |-> ToStr(data[i][1]) \o last.csv_formater \o ToStr(data[i][2])]
            labels == ToStr(self.key) \o last.csv_formater \o ToStr(self.value)
        IN /\ IsOk(last.ret)
           /\ SplitLines(Emitted) = IF last.data_only THEN rows
                                    ELSE <<Header(self, last.header_formater), labels>> \o rows

\* the mapping a record holds; a record made without one is to hold the
\* empty mapping
MappingOf(r) == IF HasMapping(r) THEN Data(r) ELSE <<>>

\* what C5 says of an astype step from a record whose mapping is data
AsTypeStepConvertsACopy(data) ==
    LET conv == [i \in DOMAIN data |-> Convert(last'.new_type, data[i][2])]
    IN /\ View("t1")' = View("t1")
       /\ IF \E i \in DOMAIN conv : ~IsOk(conv[i])
          THEN /\ ~IsOk(last'.ret)
               /\ \E i \in DOMAIN conv : last'.ret = conv[i]
               /\ UNCHANGED <<tomes, dicts>>
          ELSE /\ last'.ret = Ok(Ref("t2"))
               /\ HasMapping("t2")'
               /\ tomes'["t2"].data # tomes'["t1"].data
               /\ [tomes'["t2"] EXCEPT !.data = None] = [tomes["t1"] EXCEPT !.data = None]
               /\ UniqueKeys(Data("t2")')
               /\ Range(Data("t2")') = {<<data[i][1], conv[i].val>> : i \in DOMAIN data}

\* C5: astype(convert) returns a new record whose mapping has the original's
\* keys, each value v replaced by convert(v), and leaves the original's
\* mapping and metadata unchanged; when convert raises for a value the error
\* comes out, no record is returned, and the original is still unchanged.
C5_AsTypeConvertsACopy ==
    [][last'.op = "astype" => AsTypeStepConvertsACopy(MappingOf("t1"))]_vars

\* the same of the records that were given a mapping
AsTypeConvertsACopyOfAMapping ==
    [][(last'.op = "astype" /\ HasMapping("t1")) => AsTypeStepConvertsACopy(Data("t1"))]_vars

Mutators == {"set", "del", "setattr"}

\* C7: after copy(deep=True), sets and deletes on the copy's mapping and
\* reassignments of its metadata leave the original's mapping and metadata
\* unchanged, and changes to the original do not show in the copy.
C7_DeepCopyIsIndependent ==
    [][(origin = "deep" /\ origin' = "deep" /\ last'.op \in Mutators) =>
          /\ last'.r = "t2" => View("t1")' = View("t1")
          /\ last'.r = "t1" => View("t2")' = View("t2")]_vars

C7_Witness ==
    /\ origin = "deep"
    /\ last.op = "set"
    /\ last.r = "t2"
    /\ IsOk(last.ret)
    /\ DictGet(Data("t2"), last.k) = last.v
    /\ ~DictHas(Data("t1"), last.k)
    /\ tomes["t2"].name # tomes["t1"].name

====
